---------------------------- MODULE Spec2Model ----------------------------
(***************************************************************************)
(* Target acquisition and coordinate reconciliation of kancolle-vice-      *)
(* admiral: the Coordinate Aligner (alignment.py), the Target Resolver and *)
(* the Model-Based Detector (image_recognition.py), the State Store        *)
(* (state_store.py), the Template Matcher (image_recognition.py) and the   *)
(* model fallback and retry loop (browser_automation.py).                  *)
(*                                                                         *)
(* Each component has its own specification over the shared variables:     *)
(*   SpecAlign    the two pure functions of alignment.py                   *)
(*   SpecResolve  find_label_center                                        *)
(*   SpecDetect   detect_targets_with_gemini                               *)
(*   Spec         the State Store on a file of its own, writes succeed     *)
(*   SpecSessions Spec with instances following one another                *)
(*   SpecDisk     the State Store on a disk it does not own alone, where   *)
(*                the path may be anything and writes may fail             *)
(*   SpecTwo      two State Store instances on one path, writes succeed    *)
(*   SpecMatch    find_button_coordinates                                  *)
(*   SpecLLM      LLMManager and _execute_with_retry                       *)
(* A component that a specification does not exercise stays at its Idle    *)
(* value.                                                                  *)
(***************************************************************************)
EXTENDS Integers, Sequences, FiniteSets, TLC

VARIABLES
    align,      \* inputs and results of the Coordinate Aligner functions
    resolve,    \* input and result of find_label_center
    detect,     \* environment, raw response and outcome of detect_targets_with_gemini
    file,       \* State Store: content of the backing file
    data,       \* State Store: self._data
    loaded,     \* State Store: self._loaded
    clock,      \* State Store: int(time.time())
    last,       \* State Store: the last call, its arguments and what it returned
    other,      \* State Store: self._data and self._loaded of a second instance
    disk,       \* State Store: "sound" when every write to a writable path succeeds
    matcher,    \* inputs and result of find_button_coordinates
    llm         \* LLMManager and the retry loop that uses it

vars == <<align, resolve, detect, file, data, loaded, clock, last, other, disk, matcher, llm>>

Idle == [idle |-> TRUE]

(***************************************************************************)
(* Exact rational arithmetic.  Python floats are modelled by the rationals *)
(* they denote: a value is <<n, d>> with d > 0 and gcd(n, d) = 1, so that  *)
(* equal numbers are equal values.  Float operations round their result;   *)
(* the inputs are chosen so that every quotient and every sum is a number  *)
(* a float holds exactly, and the rounded result is the exact one.         *)
(***************************************************************************)
Abs(i) == IF i < 0 THEN -i ELSE i

RECURSIVE GCD(_, _)
GCD(a, b) == IF b = 0 THEN a ELSE GCD(b, a % b)

Rat(n, d) ==
    LET s == IF d < 0 THEN -1 ELSE 1
        g == GCD(Abs(n), Abs(d))
    IN  <<(s * n) \div g, (s * d) \div g>>

RInt(i) == <<i, 1>>
RAdd(a, b) == Rat(a[1] * b[2] + b[1] * a[2], a[2] * b[2])
RSub(a, b) == Rat(a[1] * b[2] - b[1] * a[2], a[2] * b[2])
RMul(a, b) == Rat(a[1] * b[1], a[2] * b[2])
RDiv(a, b) == Rat(a[1] * b[2], a[2] * b[1])      \* b # 0
RLt(a, b) == a[1] * b[2] < b[1] * a[2]
RLe(a, b) == a[1] * b[2] <= b[1] * a[2]
\* Python's max(a, b) and min(a, b): the first argument unless the second beats it
RMax(a, b) == IF RLt(a, b) THEN b ELSE a
RMin(a, b) == IF RLt(b, a) THEN b ELSE a

(***************************************************************************)
(* Coordinate Aligner (alignment.py)                                       *)
(***************************************************************************)
MaxPt  == 4     \* canvas points range over -MaxPt .. MaxPt
MaxBox == 3     \* bounding box width and height range over 0 .. MaxBox

\* device pixel ratios: negative, zero, one, integral, fractional above and below one
Ratios == {RInt(-2), RInt(0), RInt(1), RInt(2), Rat(3, 2), Rat(1, 2)}
BoxOrigins == {<<RInt(-3), RInt(0)>>, <<Rat(11, 2), RInt(2)>>}
ImageSizes == {<<4, 4>>, <<8, 6>>}

\* faulty variant: only a zero ratio is normalised, a negative one is kept
NormalizeRatioKeepsNegative(device_pixel_ratio) ==
    IF device_pixel_ratio = RInt(0) THEN RInt(1) ELSE device_pixel_ratio

\* if device_pixel_ratio <= 0: device_pixel_ratio = 1.0
NormalizeRatio(device_pixel_ratio) ==
    IF RLe(device_pixel_ratio, RInt(0)) THEN RInt(1) ELSE device_pixel_ratio

device_pixels_to_css_pixels(x_px, y_px, device_pixel_ratio) ==
    LET r == NormalizeRatio(device_pixel_ratio)
    IN  <<RDiv(x_px, r), RDiv(y_px, r)>>

\* faulty variant: the upper clamp is dropped
ClampToElementNoUpper(canvas_css, element_bbox_size_css) ==
    RMax(canvas_css, RInt(0))

\* min(max(canvas_css, 0.0), element_bbox_size_css)
ClampToElement(canvas_css, element_bbox_size_css) ==
    RMin(RMax(canvas_css, RInt(0)), element_bbox_size_css)

\* faulty variant: the point is clamped in device pixels, before the division
ViewportAxisClampFirst(canvas_point, bbox_origin, bbox_size, r) ==
    RAdd(bbox_origin, RDiv(ClampToElement(canvas_point, bbox_size), r))

\* one axis of lines 52-59: divide, clamp, translate
ViewportAxis(canvas_point, bbox_origin, bbox_size, r) ==
    RAdd(bbox_origin, ClampToElement(RDiv(canvas_point, r), bbox_size))

canvas_point_to_viewport(canvas_point_x, canvas_point_y, canvas_image_width_px, canvas_image_height_px, element_bbox_x_css, element_bbox_y_css, element_bbox_width_css, element_bbox_height_css, device_pixel_ratio) ==
    LET r == NormalizeRatio(device_pixel_ratio)
    IN  <<ViewportAxis(canvas_point_x, element_bbox_x_css, element_bbox_width_css, r),
          ViewportAxis(canvas_point_y, element_bbox_y_css, element_bbox_height_css, r)>>

Pending == <<"pending">>

\* the quotient of the point by the ratio is a multiple of 1/2: a number a float
\* holds exactly (a point divided by 3/2 is, when the point is a multiple of 3)
ExactQuotient(point, device_pixel_ratio) ==
    LET r == NormalizeRatio(device_pixel_ratio)
    IN  RDiv(point, r)[2] \in {1, 2}

AlignInputs ==
    {in \in [x : {RInt(i) : i \in -MaxPt .. MaxPt},
             y : {RInt(i) : i \in -MaxPt .. MaxPt},
             dpr : Ratios,
             img : ImageSizes,
             origin : BoxOrigins,
             w : {RInt(i) : i \in 0 .. MaxBox},
             h : {RInt(i) : i \in 0 .. MaxBox}] :
        ExactQuotient(in.x, in.dpr) /\ ExactQuotient(in.y, in.dpr)}

InitAlign ==
    /\ \E in \in AlignInputs : align = [in |-> in, css |-> Pending, viewport |-> Pending]
    /\ resolve = Idle /\ detect = Idle
    /\ file = Idle /\ data = Idle /\ loaded = FALSE /\ clock = 0 /\ last = Idle
    /\ other = Idle /\ matcher = Idle /\ llm = Idle
    /\ disk = Idle

DevicePixelsToCss ==
    /\ align.css = Pending
    /\ align' = [align EXCEPT !.css =
                    device_pixels_to_css_pixels(align.in.x, align.in.y, align.in.dpr)]
    /\ UNCHANGED <<resolve, detect, file, data, loaded, clock, last, other, matcher, llm, disk>>

CanvasPointToViewport ==
    /\ align.viewport = Pending
    /\ align' = [align EXCEPT !.viewport =
                    canvas_point_to_viewport(
                        align.in.x, align.in.y,
                        RInt(align.in.img[1]), RInt(align.in.img[2]),
                        align.in.origin[1], align.in.origin[2],
                        align.in.w, align.in.h, align.in.dpr)]
    /\ UNCHANGED <<resolve, detect, file, data, loaded, clock, last, other, matcher, llm, disk>>

NextAlign == DevicePixelsToCss \/ CanvasPointToViewport

SpecAlign == InitAlign /\ [][NextAlign]_vars

\* the normalised ratio as the claims state it, written without NormalizeRatio
EffectiveRatio == IF align.in.dpr[1] > 0 THEN align.in.dpr ELSE RInt(1)

\* C1: canvas_point_to_viewport keeps x in [bbox.x, bbox.x + bbox.width] and y in
\* [bbox.y, bbox.y + bbox.height], for every canvas point, every device pixel
\* ratio and every bounding box with non-negative width and height.
C1_ClampingInvariant ==
    align.viewport # Pending =>
        /\ RLe(align.in.origin[1], align.viewport[1])
        /\ RLe(align.viewport[1], RAdd(align.in.origin[1], align.in.w))
        /\ RLe(align.in.origin[2], align.viewport[2])
        /\ RLe(align.viewport[2], RAdd(align.in.origin[2], align.in.h))

\* a point right of and below the element has been pulled to its far edges
C1_Witness ==
    /\ align.viewport # Pending
    /\ RLt(align.in.w, RDiv(align.in.x, EffectiveRatio))
    /\ RLt(align.in.h, RDiv(align.in.y, EffectiveRatio))
    /\ RLt(RInt(0), align.in.w)
    /\ RLe(align.in.dpr, RInt(0))
    /\ align.viewport = <<RAdd(align.in.origin[1], align.in.w),
                          RAdd(align.in.origin[2], align.in.h)>>

\* the offset the claim prescribes on one axis: 0 left of the element, the size
\* right of it, and otherwise the number that multiplied by the ratio gives the point
AxisAsClaimed(out, point, origin, size) ==
    LET off == RSub(out, origin)
    IN  IF point[1] < 0 THEN off = RInt(0)
        ELSE IF RLt(RMul(size, EffectiveRatio), point) THEN off = size
        ELSE RMul(off, EffectiveRatio) = point

\* C2: per axis the result is bbox_offset + clamp(canvas_point / r, 0, bbox_size)
\* with r the ratio if it is > 0 and 1 otherwise: divided, then clamped, then
\* translated; a point already inside the element is translated unmoved.
C2_DivideClampTranslate ==
    align.viewport # Pending =>
        /\ AxisAsClaimed(align.viewport[1], align.in.x, align.in.origin[1], align.in.w)
        /\ AxisAsClaimed(align.viewport[2], align.in.y, align.in.origin[2], align.in.h)

\* a point inside the element under a ratio that is not 1: translated, not moved,
\* where clamping the device pixels first would have moved it
C2_Witness ==
    /\ align.viewport # Pending
    /\ align.in.dpr = Rat(1, 2)
    /\ align.in.x = RInt(1) /\ align.in.w = RInt(3)
    /\ align.in.y = RInt(2) /\ align.in.h = RInt(3)
    /\ align.viewport = <<RAdd(align.in.origin[1], RInt(2)),
                          RAdd(align.in.origin[2], RInt(3))>>

\* C3: device_pixels_to_css_pixels gives (x/r, y/r) for r > 0 and (x, y), the
\* result for r = 1.0, for r <= 0: no division by zero and no sign flip.
C3_DevicePixelsToCss ==
    align.css # Pending =>
        /\ align.in.dpr[1] > 0 =>
              /\ RMul(align.css[1], align.in.dpr) = align.in.x
              /\ RMul(align.css[2], align.in.dpr) = align.in.y
        /\ align.in.dpr[1] <= 0 => align.css = <<align.in.x, align.in.y>>

\* a negative ratio has been treated as 1.0
C3_Witness ==
    /\ align.css # Pending
    /\ align.in.dpr = RInt(-2)
    /\ align.in.x = RInt(3)
    /\ align.css = <<RInt(3), align.in.y>>

(***************************************************************************)
(* Target Resolver: find_label_center (image_recognition.py)               *)
(*                                                                         *)
(* A string is a sequence of characters.  A coordinate field of a          *)
(* detection entry is [k, n]: an int n, a float n/2, a string holding the  *)
(* decimal digits of n, a string that is no number, null, or absent.       *)
(***************************************************************************)
MaxEntries == 2     \* detection.centers and detection.boxes hold up to MaxEntries entries

LowerChar(ch) ==
    CASE ch = "G" -> "g"
      [] ch = "O" -> "o"
      [] ch = "T" -> "t"
      [] ch = "K" -> "k"
      [] OTHER -> ch

\* str.lower()
Lower(s) == [i \in DOMAIN s |-> LowerChar(s[i])]

VInt(n)    == [k |-> "int", n |-> n]
VFloat2(n) == [k |-> "float", n |-> n]       \* the float n / 2
VNumStr(n) == [k |-> "numstr", n |-> n]
VJunk      == [k |-> "junk", n |-> 0]
VNull      == [k |-> "null", n |-> 0]
VAbsent    == [k |-> "absent", n |-> 0]

Label(s)    == [k |-> "str", s |-> s]
LabelAbsent == [k |-> "absent", s |-> <<>>]

\* truncation toward zero of h / 2: int() of a float
TruncHalves(h) == IF h >= 0 THEN h \div 2 ELSE -((-h) \div 2)

\* int(v) raises for None and for a string that is no integer literal
IntCoercible(v) == v.k \in {"int", "float", "numstr"}
IntOf(v) == IF v.k = "float" THEN TruncHalves(v.n) ELSE v.n

\* v // 2 and x + (...) raise TypeError unless both operands are numbers
IsNumber(v) == v.k \in {"int", "float"}
Halves(v) == IF v.k = "float" THEN v.n ELSE 2 * v.n

\* faulty variant: the half is added without flooring (x + w / 2, then int())
BoxAxisTrueDivision(x, w) == TruncHalves(Halves(x) + (Halves(w) \div 2))

\* int(x + w // 2): floor division of the size, addition, truncation
BoxAxis(x, w) == TruncHalves(Halves(x) + 2 * (Halves(w) \div 4))

NotFound == [k |-> "none", pt |-> <<0, 0>>]
Point(px, py) == [k |-> "point", pt |-> <<px, py>>]
NotCalled == [k |-> "pending", pt |-> <<0, 0>>]

\* str(c.get("label", "")).lower()
EntryLabel(e) == Lower(e.label.s)

\* labels_norm = [s.lower() for s in label_aliases]
LabelsNorm(label_aliases) == [i \in DOMAIN label_aliases |-> Lower(label_aliases[i])]

\* lbl in labels_norm
LabelMatches(e, labels_norm) == \E i \in DOMAIN labels_norm : EntryLabel(e) = labels_norm[i]

\* b.get("xywh", [0, 0, 0, 0])
XywhOrDefault(b) ==
    IF b.xywh.k = "absent"
    THEN [k |-> "list", v |-> <<VInt(0), VInt(0), VInt(0), VInt(0)>>]
    ELSE b.xywh

\* the try block of lines 247-249 completes: the unpacking and both sums succeed
BoxYields(b) ==
    LET q == XywhOrDefault(b)
    IN  /\ q.k = "list"
        /\ Len(q.v) = 4
        /\ \A i \in 1 .. 4 : IsNumber(q.v[i])

BoxCenter(b) ==
    LET q == XywhOrDefault(b)
    IN  Point(BoxAxis(q.v[1], q.v[3]), BoxAxis(q.v[2], q.v[4]))

\* the try block of lines 238-239 completes
CenterYields(c) == IntCoercible(c.cx) /\ IntCoercible(c.cy)

\* faulty variant: an entry that raises ends the scan instead of being skipped
RECURSIVE ScanCentersStopAtMalformed(_, _)
ScanCentersStopAtMalformed(centers, labels_norm) ==
    IF centers = <<>> THEN NotFound
    ELSE LET c == Head(centers)
         IN  IF LabelMatches(c, labels_norm)
             THEN IF CenterYields(c) THEN Point(IntOf(c.cx), IntOf(c.cy)) ELSE NotFound
             ELSE ScanCentersStopAtMalformed(Tail(centers), labels_norm)

\* lines 235-241
RECURSIVE ScanCenters(_, _)
ScanCenters(centers, labels_norm) ==
    IF centers = <<>> THEN NotFound
    ELSE LET c == Head(centers)
         IN  IF LabelMatches(c, labels_norm) /\ CenterYields(c)
             THEN Point(IntOf(c.cx), IntOf(c.cy))
             ELSE ScanCenters(Tail(centers), labels_norm)

\* lines 244-251
RECURSIVE ScanBoxes(_, _)
ScanBoxes(boxes, labels_norm) ==
    IF boxes = <<>> THEN NotFound
    ELSE LET b == Head(boxes)
         IN  IF LabelMatches(b, labels_norm) /\ BoxYields(b)
             THEN BoxCenter(b)
             ELSE ScanBoxes(Tail(boxes), labels_norm)

\* faulty variant: boxes are scanned before centers
find_label_center_boxes_first(detection, label_aliases) ==
    LET labels_norm == LabelsNorm(label_aliases)
        fromBoxes == ScanBoxes(detection.boxes, labels_norm)
    IN  IF fromBoxes # NotFound THEN fromBoxes
        ELSE ScanCenters(detection.centers, labels_norm)

find_label_center(detection, label_aliases) ==
    LET labels_norm == LabelsNorm(label_aliases)
        fromCenters == ScanCenters(detection.centers, labels_norm)
    IN  IF fromCenters # NotFound THEN fromCenters
        ELSE ScanBoxes(detection.boxes, labels_norm)

GO_  == <<"G", "O">>
go_  == <<"g", "o">>
Go_  == <<"G", "o">>
got_ == <<"g", "o", "t">>
ok_  == <<"o", "k">>
OK_  == <<"O", "K">>

CenterEntries ==
    { [label |-> Label(GO_),  cx |-> VInt(7),     cy |-> VInt(9)],
      [label |-> Label(go_),  cx |-> VNumStr(4),  cy |-> VFloat2(5)],
      [label |-> Label(Go_),  cx |-> VAbsent,     cy |-> VInt(1)],
      [label |-> Label(ok_),  cx |-> VInt(5),     cy |-> VJunk],
      [label |-> Label(ok_),  cx |-> VInt(-3),    cy |-> VFloat2(-5)],
      [label |-> Label(got_), cx |-> VInt(1),     cy |-> VInt(1)],
      [label |-> LabelAbsent, cx |-> VNull,       cy |-> VInt(2)] }

XList(x, y, w, h) == [k |-> "list", v |-> <<x, y, w, h>>]

BoxEntries ==
    { [label |-> Label(go_),  xywh |-> XList(VInt(10), VInt(20), VInt(5), VInt(7))],
      [label |-> Label(GO_),  xywh |-> [k |-> "absent", v |-> <<>>]],
      [label |-> Label(go_),  xywh |-> [k |-> "null", v |-> <<>>]],
      [label |-> Label(Go_),  xywh |-> [k |-> "list", v |-> <<VInt(1), VInt(2), VInt(3)>>]],
      [label |-> Label(ok_),  xywh |-> XList(VInt(1), VInt(2), VInt(-3), VInt(-5))],
      [label |-> Label(OK_),  xywh |-> XList(VInt(1), VInt(2), VNumStr(3), VInt(4))],
      [label |-> Label(ok_),  xywh |-> XList(VFloat2(1), VInt(2), VFloat2(-5), VInt(-5))],
      [label |-> Label(got_), xywh |-> XList(VInt(4), VInt(4), VInt(2), VInt(2))] }

AliasLists == { <<>>, <<go_>>, <<GO_, ok_>>, <<OK_>>, <<<<"g">>, <<"o">>>> }

SeqsUpTo(S, n) == UNION { [1 .. m -> S] : m \in 0 .. n }

\* detection.get("centers", []) and detection.get("boxes", []): an absent key is the
\* empty list
Detections == [centers : SeqsUpTo(CenterEntries, MaxEntries),
               boxes : SeqsUpTo(BoxEntries, MaxEntries)]

InitResolve ==
    /\ \E d \in Detections, a \in AliasLists :
          resolve = [detection |-> d, label_aliases |-> a, out |-> NotCalled]
    /\ align = Idle /\ detect = Idle
    /\ file = Idle /\ data = Idle /\ loaded = FALSE /\ clock = 0 /\ last = Idle
    /\ other = Idle /\ matcher = Idle /\ llm = Idle
    /\ disk = Idle

FindLabelCenter ==
    /\ resolve.out = NotCalled
    /\ resolve' = [resolve EXCEPT !.out =
                      find_label_center(resolve.detection, resolve.label_aliases)]
    /\ UNCHANGED <<align, detect, file, data, loaded, clock, last, other, matcher, llm, disk>>

NextResolve == FindLabelCenter

SpecResolve == InitResolve /\ [][NextResolve]_vars

\* the claims' reading of an entry: its label equals some alias case-insensitively
\* (exact equality of the lower-cased strings; an entry without a label equals none)
LabelEqualsAlias(e) ==
    /\ e.label.k = "str"
    /\ \E i \in DOMAIN resolve.label_aliases :
          Lower(e.label.s) = Lower(resolve.label_aliases[i])

\* cx and cy are coercible to integers
CoercibleCenter(c) ==
    /\ c.cx.k \in {"int", "float", "numstr"}
    /\ c.cy.k \in {"int", "float", "numstr"}

\* indices of the centers entries that match an alias and are coercible
GoodCenters ==
    {i \in DOMAIN resolve.detection.centers :
        /\ LabelEqualsAlias(resolve.detection.centers[i])
        /\ CoercibleCenter(resolve.detection.centers[i])}

\* indices of the boxes entries whose label matches an alias
LabelledBoxes ==
    {i \in DOMAIN resolve.detection.boxes : LabelEqualsAlias(resolve.detection.boxes[i])}

First(S) == CHOOSE i \in S : \A j \in S : i <= j

\* C4: when detection.centers has an entry whose label equals an alias
\* case-insensitively and whose cx, cy are coercible to integers, the result is
\* (int(cx), int(cy)) of the first such entry, whatever detection.boxes holds.
C4_PrefersCenters ==
    (resolve.out # NotCalled /\ GoodCenters # {}) =>
        LET c == resolve.detection.centers[First(GoodCenters)]
        IN  resolve.out = Point(IntOf(c.cx), IntOf(c.cy))

\* a center and a well-formed box share the label: the center's point is returned
C4_Witness ==
    /\ resolve.out = Point(7, 9)
    /\ resolve.label_aliases = <<go_>>
    /\ Len(resolve.detection.centers) = 2
    /\ resolve.detection.centers[1].label = Label(got_)
    /\ resolve.detection.centers[2].label = Label(GO_)
    /\ Len(resolve.detection.boxes) >= 1
    /\ resolve.detection.boxes[1] =
          [label |-> Label(go_), xywh |-> XList(VInt(10), VInt(20), VInt(5), VInt(7))]

FourIntegers(b) ==
    /\ b.xywh.k = "list"
    /\ Len(b.xywh.v) = 4
    /\ \A i \in 1 .. 4 : b.xywh.v[i].k = "int"

\* C5: when no centers entry yields a result, the result is, for the first entry of
\* detection.boxes whose label equals an alias case-insensitively (its xywh being
\* four integers), the point (x + width // 2, y + height // 2) with floor division.
C5_BoxFallback ==
    (/\ resolve.out # NotCalled
     /\ GoodCenters = {}
     /\ LabelledBoxes # {}
     /\ FourIntegers(resolve.detection.boxes[First(LabelledBoxes)])) =>
        LET q == resolve.detection.boxes[First(LabelledBoxes)].xywh.v
        IN  resolve.out = Point(q[1].n + (q[3].n \div 2), q[2].n + (q[4].n \div 2))

\* only a box matches, behind a box of another label; its width and height are odd
\* and negative, where flooring and truncating differ
C5_Witness ==
    /\ resolve.out = Point(-1, -1)
    /\ resolve.label_aliases = <<OK_>>
    /\ GoodCenters = {}
    /\ Len(resolve.detection.centers) >= 1
    /\ Len(resolve.detection.boxes) = 2
    /\ resolve.detection.boxes[1].label = Label(got_)
    /\ resolve.detection.boxes[2] =
          [label |-> Label(ok_), xywh |-> XList(VInt(1), VInt(2), VInt(-3), VInt(-5))]

\* the claims' malformed entries: cx or cy absent or not coercible; xywh absent, null
\* or not four numbers
MalformedCenter(c) == ~CoercibleCenter(c)
MalformedBox(b) ==
    \/ b.xywh.k \in {"absent", "null"}
    \/ Len(b.xywh.v) # 4
    \/ \E i \in DOMAIN b.xywh.v : b.xywh.v[i].k \notin {"int", "float"}

WithoutMalformed(detection) ==
    [centers |-> SelectSeq(detection.centers, LAMBDA c : ~MalformedCenter(c)),
     boxes |-> SelectSeq(detection.boxes, LAMBDA b : ~MalformedBox(b))]

\* C6: a malformed entry is never the source of the returned point: the result is
\* the result for the detection with the malformed entries removed.
C6_MalformedSkipped ==
    resolve.out # NotCalled =>
        resolve.out = find_label_center(WithoutMalformed(resolve.detection),
                                        resolve.label_aliases)

\* C7 as stated: NotFound exactly when no centers entry and no boxes entry has a
\* label equal to an alias.
C7_NotFoundIffNoLabel ==
    resolve.out # NotCalled =>
        (resolve.out = NotFound <=>
            /\ \A i \in DOMAIN resolve.detection.centers :
                  ~LabelEqualsAlias(resolve.detection.centers[i])
            /\ LabelledBoxes = {})

\* a box the scan can take a point from: xywh absent (read as [0, 0, 0, 0]) or four
\* numbers
UsableBox(b) ==
    \/ b.xywh.k = "absent"
    \/ /\ b.xywh.k = "list"
       /\ Len(b.xywh.v) = 4
       /\ \A i \in 1 .. 4 : b.xywh.v[i].k \in {"int", "float"}

\* C7 (amended): NotFound exactly when no centers entry with a matching label has
\* cx, cy coercible to integers and no boxes entry with a matching label has an
\* xywh that is absent or four numbers; so for the empty detection and for the
\* empty alias list.
C7_NotFoundIffNothingUsable ==
    resolve.out # NotCalled =>
        (resolve.out = NotFound <=>
            /\ GoodCenters = {}
            /\ \A i \in LabelledBoxes : ~UsableBox(resolve.detection.boxes[i]))

\* NotFound although a centers entry and a boxes entry carry a matching label
C7_Witness ==
    /\ resolve.out = NotFound
    /\ resolve.label_aliases = <<go_>>
    /\ \E i \in DOMAIN resolve.detection.centers :
          LabelEqualsAlias(resolve.detection.centers[i])
    /\ LabelledBoxes # {}

(***************************************************************************)
(* Model-Based Detector: detect_targets_with_gemini (image_recognition.py) *)
(*                                                                         *)
(* The environment of one call: whether the inference library was          *)
(* imported, whether an API key is configured, what the image argument is, *)
(* whether the PNG encoder succeeds, whether the model constructors        *)
(* succeed, what the hints argument is, and what the service answers.  A   *)
(* field of a JSON object is absent, null, a number, the empty list or a   *)
(* list with an entry.                                                     *)
(***************************************************************************)
FieldValues == {"absent", "null", "number", "[]", "[entry]"}
JsonObjects == [boxes : FieldValues, centers : FieldValues, polygons : FieldValues]
NoFields == [boxes |-> "absent", centers |-> "absent", polygons |-> "absent"]

\* {"boxes": [], "centers": [], "polygons": []}
EmptyDetection == [boxes |-> "[]", centers |-> "[]", polygons |-> "[]"]

Responses ==
    {[k |-> x, o |-> NoFields] :
        x \in {"transport_error", "no_text", "not_json",
               "json_array", "json_null", "json_number", "json_string"}}
    \cup {[k |-> "json_object", o |-> o] : o \in JsonObjects}

\* the image argument: "ndarray" is an array of two or more dimensions,
\* "ndarray_flat" one of fewer (shape (n,) or ())
ImageArgs == {"ndarray", "ndarray_flat", "bytes_image", "bytes_garbage", "path_image",
              "path_unreadable", "other_type"}

\* the hints argument: None, a list of strings, a list with an item that is no string
HintsArgs == {"none", "strings", "not_strings"}

DetectEnvs ==
    [genai_imported : BOOLEAN, api_key_set : BOOLEAN, image : ImageArgs,
     encode_ok : BOOLEAN, model_ok : BOOLEAN, fallback_model_ok : BOOLEAN,
     hints : HintsArgs, response : Responses]

Raised(e) == [k |-> "raised", err |-> e, value |-> NoFields]
Returned(v) == [k |-> "returned", err |-> "", value |-> v]
DetectPending == [k |-> "pending", err |-> "", value |-> NoFields]

\* data.setdefault(key, []): only an absent key gets the empty list
SetDefaultEmptyList(v) == IF v = "absent" THEN "[]" ELSE v

\* lines 203-225, the part of the function inside try/except
GenerateAndNormalize(response) ==
    IF response.k = "transport_error" THEN Returned(EmptyDetection)
    ELSE IF response.k = "not_json" THEN Returned(EmptyDetection)
    ELSE IF response.k \in {"json_array", "json_null", "json_number", "json_string"}
         THEN Returned(EmptyDetection)       \* .setdefault raises AttributeError
    ELSE LET o == IF response.k = "no_text" THEN NoFields ELSE response.o
         IN  Returned([boxes |-> SetDefaultEmptyList(o.boxes),
                       centers |-> SetDefaultEmptyList(o.centers),
                       polygons |-> SetDefaultEmptyList(o.polygons)])

\* lines 117-131 run outside any try/except of this function: configuration,
\* _ensure_image, h, w = img.shape[:2] (line 120), the PNG encoder, the model
\* constructors, ", ".join(hints) (line 131)
detect_targets_with_gemini(env) ==
    IF ~env.genai_imported THEN Raised("RuntimeError")
    ELSE IF ~env.api_key_set THEN Raised("RuntimeError")
    ELSE IF env.image \in {"bytes_garbage", "path_unreadable"} THEN Raised("ValueError")
    ELSE IF env.image = "other_type" THEN Raised("TypeError")
    ELSE IF env.image = "ndarray_flat" THEN Raised("ValueError")
    ELSE IF ~env.encode_ok THEN Raised("ValueError")
    ELSE IF ~env.model_ok /\ ~env.fallback_model_ok THEN Raised("Exception")
    ELSE IF env.hints = "not_strings" THEN Raised("TypeError")
    ELSE GenerateAndNormalize(env.response)

InitDetect ==
    /\ \E env \in DetectEnvs : detect = [env |-> env, out |-> DetectPending]
    /\ align = Idle /\ resolve = Idle
    /\ file = Idle /\ data = Idle /\ loaded = FALSE /\ clock = 0 /\ last = Idle
    /\ other = Idle /\ matcher = Idle /\ llm = Idle
    /\ disk = Idle

DetectTargets ==
    /\ detect.out = DetectPending
    /\ detect' = [detect EXCEPT !.out = detect_targets_with_gemini(detect.env)]
    /\ UNCHANGED <<align, resolve, file, data, loaded, clock, last, other, matcher, llm, disk>>

NextDetect == DetectTargets

SpecDetect == InitDetect /\ [][NextDetect]_vars

\* a step of the call fails: library or key missing, image not decodable or not
\* encodable, no model can be constructed, transport error, answer not parseable
SomeStepFails ==
    \/ ~detect.env.genai_imported
    \/ ~detect.env.api_key_set
    \/ detect.env.image \notin {"ndarray", "bytes_image", "path_image"}
    \/ ~detect.env.encode_ok
    \/ (~detect.env.model_ok /\ ~detect.env.fallback_model_ok)
    \/ detect.env.response.k \in {"transport_error", "not_json"}

\* C8: detect_targets never raises to its caller; every failure in any of its steps
\* ends with the empty Detection being returned.
C8_NeverRaises ==
    detect.out # DetectPending =>
        /\ detect.out.k = "returned"
        /\ SomeStepFails => detect.out.value = EmptyDetection

IsList(v) == v \in {"[]", "[entry]"}

\* C9: in every value detect_targets returns, boxes, centers and polygons are all
\* present and each maps to a list, never null and never absent.
C9_NormalizedShape ==
    detect.out.k = "returned" =>
        /\ IsList(detect.out.value.boxes)
        /\ IsList(detect.out.value.centers)
        /\ IsList(detect.out.value.polygons)

(***************************************************************************)
(* State Store (state_store.py)                                            *)
(*                                                                         *)
(* data is self._data, a dict: map gives the value under each key and      *)
(* order the keys in the order they were inserted, the order json.dumps    *)
(* writes them in.  The value under a screen id is a record with the keys  *)
(* the entry has: a screen entry may lack "targets", a target record may   *)
(* lack "last_seen" or have keys the store does not write.  file is the    *)
(* backing path: what is there and, for the JSON text of an object, the    *)
(* sequence of its members, [key, value], in the order they are written.   *)
(***************************************************************************)
MaxClock == 1           \* int(time.time()) ranges over 0 .. MaxClock
DefaultRadius == 16     \* radius: float = 16.0

Screens == {"port", "sortie"}
Names == {"start", "supply"}

\* what a caller passes to upsert_target after screen_id and name
UpsertArgs ==
    { [cx |-> 10, cy |-> 20, has_radius |-> FALSE, radius |-> 0],
      [cx |-> 30, cy |-> 40, has_radius |-> TRUE, radius |-> 8] }
NoArgs == [cx |-> 0, cy |-> 0, has_radius |-> FALSE, radius |-> 0]

\* {}
EmptyMapping == [order |-> <<>>, map |-> <<>>]
NoRecord == [name |-> "", center_canvas |-> <<0, 0>>, radius |-> 0, last_seen |-> 0]

\* the keys of the dict d and d[key]
Keys(d) == DOMAIN d.map
Get(d, key) == d.map[key]

Member(key, value) == [key |-> key, value |-> value]

FileAbsent == [k |-> "absent", doc |-> <<>>]
\* a zero-length file: text that json.loads rejects
FileEmpty == [k |-> "not_json", doc |-> <<>>]

\* a file without read permission for the process: read_text raises whatever the
\* file holds, and a write that the file admits changes what it holds and leaves
\* it without read permission.  This one is zero-length
FileUnreadable == [k |-> "unreadable", doc |-> <<>>, holds |-> FileEmpty]
\* a directory at the path: read_text raises, and so does write_text
FileDirectory == [k |-> "directory", doc |-> <<>>]
\* a path whose stat fails with an error path.exists() does not swallow (a parent
\* directory that may not be searched, a name that is too long): exists() raises,
\* and so does write_text
FileInaccessible == [k |-> "inaccessible", doc |-> <<>>]
\* a file holding the JSON text of a list, []
FileList == [k |-> "json_list", doc |-> <<>>]

\* self._data after json.loads of a JSON list: a value without .get
ListData == [order |-> <<>>, map |-> <<>>, list |-> TRUE]
IsMapping(d) == d # ListData

\* faulty variant: only the first member is written
DumpsFirstMemberOnly(d) ==
    IF d = ListData THEN FileList
    ELSE [k |-> "json",
          doc |-> IF d.order = <<>> THEN <<>>
                  ELSE <<Member(d.order[1], d.map[d.order[1]])>>]

\* json.dumps(self._data, ...) written to the file: the members of the dict in
\* the order of insertion
Dumps(d) ==
    IF d = ListData THEN FileList
    ELSE [k |-> "json",
          doc |-> [i \in DOMAIN d.order |-> Member(d.order[i], d.map[d.order[i]])]]

\* the keys of the members in the order of their first occurrence
RECURSIVE KeyOrder(_)
KeyOrder(members) ==
    IF members = <<>> THEN <<>>
    ELSE LET front == KeyOrder(SubSeq(members, 1, Len(members) - 1))
             key == members[Len(members)].key
         IN  IF \E i \in DOMAIN front : front[i] = key THEN front
             ELSE Append(front, key)

\* json.loads of the text of an object: a key named twice keeps its first place
\* and its last value
ParseObject(members) ==
    [order |-> KeyOrder(members),
     map |-> [key \in {members[i].key : i \in DOMAIN members} |->
                 LET i == CHOOSE i \in DOMAIN members :
                             /\ members[i].key = key
                             /\ \A j \in DOMAIN members : members[j].key = key => j <= i
                 IN  members[i].value]]

\* line 22: path.exists() raises
ExistsRaises(f) == f.k = "inaccessible"

\* lines 22-28: the parsed document, or {} when the file is absent or when
\* read_text or json.loads raises
ReadFile(f) ==
    IF f.k = "json" THEN ParseObject(f.doc)
    ELSE IF f.k = "json_list" THEN ListData
    ELSE EmptyMapping

\* load() raises: the store has not loaded and path.exists() raises at line 22,
\* outside the try
LoadRaises == ~loaded /\ ExistsRaises(file)

\* faulty variant: every load() reads the file again
DataAfterLoadAlwaysReads == ReadFile(file)

\* faulty variant: load() never reads the file
DataAfterLoadNeverReads == data

\* self._data once load() has returned
DataAfterLoad == IF loaded THEN data ELSE ReadFile(file)

\* self._data.get(screen_id, {}).get("targets", [])
TargetsOf(d, screen_id) ==
    IF screen_id \in Keys(d) /\ "targets" \in DOMAIN Get(d, screen_id)
    THEN Get(d, screen_id).targets
    ELSE <<>>

\* lines 37-42
Entry(name, args, now) ==
    [name |-> name,
     center_canvas |-> <<args.cx, args.cy>>,
     radius |-> IF args.has_radius THEN args.radius ELSE DefaultRadius,
     last_seen |-> now]

\* t.update(entry): the keys of entry are set, the other keys of t stay
Updated(t, entry) ==
    [key \in DOMAIN t \cup DOMAIN entry |->
        IF key \in DOMAIN entry THEN entry[key] ELSE t[key]]

\* faulty variant: the entry is appended whether or not the name is present
ReplaceOrAppendAlwaysAppends(targets, name, entry) == Append(targets, entry)

\* faulty variant: a record that exists is removed and the entry appended
ReplaceOrAppendMovesToEnd(targets, name, entry) ==
    Append(SelectSeq(targets, LAMBDA t : t.name # name), entry)

\* faulty variant: every record of the list gets the time of the entry
ReplaceOrAppendRefreshesAll(targets, name, entry) ==
    LET touched == [i \in DOMAIN targets |->
                       Updated(targets[i], [last_seen |-> entry.last_seen])]
    IN  IF \E i \in DOMAIN targets : targets[i].name = name
        THEN LET i == CHOOSE i \in DOMAIN targets :
                        /\ targets[i].name = name
                        /\ \A j \in 1 .. i - 1 : targets[j].name # name
             IN  [touched EXCEPT ![i] = Updated(targets[i], entry)]
        ELSE Append(touched, entry)

\* faulty variant: a record that exists is kept as it is
ReplaceOrAppendKeepsOld(targets, name, entry) ==
    IF \E i \in DOMAIN targets : targets[i].name = name
    THEN targets
    ELSE Append(targets, entry)

\* lines 45-52: update the first record of that name in place, else append
ReplaceOrAppend(targets, name, entry) ==
    IF \E i \in DOMAIN targets : targets[i].name = name
    THEN LET i == CHOOSE i \in DOMAIN targets :
                    /\ targets[i].name = name
                    /\ \A j \in 1 .. i - 1 : targets[j].name # name
         IN  [targets EXCEPT ![i] = Updated(targets[i], entry)]
    ELSE Append(targets, entry)

\* faulty variant: the mapping is rebuilt with the screen written alone
WithTargetsDropsOtherScreens(d, screen_id, targets) ==
    [order |-> <<screen_id>>,
     map |-> [s \in {screen_id} |-> [targets |-> targets]]]

\* self._data.setdefault(screen_id, {})["targets"] = targets: a new screen is
\* inserted last; the other keys of the screen entry and the other screens stay
WithTargets(d, screen_id, targets) ==
    [order |-> IF screen_id \in Keys(d) THEN d.order ELSE Append(d.order, screen_id),
     map |-> [s \in Keys(d) \cup {screen_id} |->
                 IF s # screen_id THEN Get(d, s)
                 ELSE IF s \in Keys(d)
                      THEN Updated(Get(d, s), [targets |-> targets])
                      ELSE [targets |-> targets]]]

\* r.get("last_seen", 0)
LastSeenKey(r) == IF "last_seen" \in DOMAIN r THEN r.last_seen ELSE 0

\* faulty variant: the sort is ascending (reverse=True left out)
RECURSIVE InsertByLastSeenAscending(_, _)
InsertByLastSeenAscending(sorted, t) ==
    IF sorted = <<>> THEN <<t>>
    ELSE IF LastSeenKey(Head(sorted)) <= LastSeenKey(t)
         THEN <<Head(sorted)>> \o InsertByLastSeenAscending(Tail(sorted), t)
         ELSE <<t>> \o sorted

\* sorted(targets, key=last_seen, reverse=True): stable, equal keys keep their order
RECURSIVE InsertByLastSeen(_, _)
InsertByLastSeen(sorted, t) ==
    IF sorted = <<>> THEN <<t>>
    ELSE IF LastSeenKey(Head(sorted)) >= LastSeenKey(t)
         THEN <<Head(sorted)>> \o InsertByLastSeen(Tail(sorted), t)
         ELSE <<t>> \o sorted

RECURSIVE SortedByLastSeen(_)
SortedByLastSeen(targets) ==
    IF targets = <<>> THEN <<>>
    ELSE InsertByLastSeen(SortedByLastSeen(SubSeq(targets, 1, Len(targets) - 1)),
                          targets[Len(targets)])

\* lines 58-62
find_target(d, screen_id, name) ==
    LET sorted == SortedByLastSeen(TargetsOf(d, screen_id))
        hits == {i \in DOMAIN sorted : sorted[i].name = name}
    IN  IF hits = {} THEN [found |-> FALSE, rec |-> NoRecord]
        ELSE [found |-> TRUE, rec |-> sorted[CHOOSE i \in hits : \A j \in hits : i <= j]]

\* the call read the backing file: it ran load() on a store not yet loaded, and
\* path.exists() returned
ReadsFile(call) ==
    ~loaded /\ ~ExistsRaises(file) /\ call \in {"load", "upsert", "find"}

Call(call, screen_id, name, args, result) ==
    [call |-> call, screen |-> screen_id, name |-> name, args |-> args,
     found |-> result.found, rec |-> result.rec, raised |-> "",
     read_file |-> ReadsFile(call)]
None == [found |-> FALSE, rec |-> NoRecord]

\* the call did not return: the exception err left it.  "OSError(load)" is the
\* OSError of path.exists() at line 22, "OSError(save)" the one of mkdir or
\* write_text at lines 32-33
Raise(call, screen_id, name, args, err) ==
    [call |-> call, screen |-> screen_id, name |-> name, args |-> args,
     found |-> FALSE, rec |-> NoRecord, raised |-> err,
     read_file |-> ReadsFile(call)]

\* a new store on a path that is absent or empty, on a disk whose writes succeed
Init ==
    /\ file \in {FileAbsent, FileEmpty}
    /\ data = EmptyMapping
    /\ loaded = FALSE
    /\ clock = 0
    /\ last = Call("new", "", "", NoArgs, None)
    /\ align = Idle /\ resolve = Idle /\ detect = Idle
    /\ other = Idle /\ matcher = Idle /\ llm = Idle
    /\ disk = "sound"

Load ==
    /\ IF LoadRaises
       THEN /\ UNCHANGED <<data, loaded>>
            /\ last' = Raise("load", "", "", NoArgs, "OSError(load)")
       ELSE /\ data' = DataAfterLoad
            /\ loaded' = TRUE
            /\ last' = Call("load", "", "", NoArgs, None)
    /\ UNCHANGED <<file, clock, align, resolve, detect, other, matcher, llm, disk>>

\* what save() meets: the text is written; mkdir or the opening of the file
\* raises OSError and the path stays as it is; the write raises OSError after the
\* file was truncated
WriteOutcomes == {"written", "refused", "truncated"}

\* a directory cannot be opened for writing, nor a path that cannot be reached;
\* on another path every outcome is possible (a file without read permission may
\* be without write permission too, and then the write is refused)
WriteOutcomesOn(f) ==
    IF f.k \in {"directory", "inaccessible"} THEN {"refused"}
    ELSE IF disk = "faulty" THEN WriteOutcomes
    ELSE {"written"}

\* the file after save() of the mapping d with that outcome: write_text replaces
\* what the file holds and keeps the permissions of a file that exists, so a file
\* the process cannot read stays one
FileAfterWrite(d, write) ==
    CASE write = "refused" -> file
      [] write = "written" /\ file.k = "unreadable" -> [file EXCEPT !.holds = Dumps(d)]
      [] write = "written" -> Dumps(d)
      [] file.k = "unreadable" -> [file EXCEPT !.holds = FileEmpty]
      [] OTHER -> FileEmpty

\* lines 31-33 with the outcome of the write
save(write) ==
    /\ write \in WriteOutcomesOn(file)
    /\ file' = FileAfterWrite(data, write)
    /\ last' = IF write = "written"
               THEN Call("save", "", "", NoArgs, None)
               ELSE Raise("save", "", "", NoArgs, "OSError(save)")
    /\ UNCHANGED <<data, loaded, clock, align, resolve, detect, other, matcher, llm, disk>>

Save == \E write \in WriteOutcomes : save(write)

\* faulty variant: the file is read again before the record is written, so what
\* another writer saved is merged into memory
upsert_target_rereads(screen_id, name, args, write) ==
    LET d == IF file.k = "json" THEN ReadFile(file) ELSE DataAfterLoad
        entry == Entry(name, args, clock)
        targets == ReplaceOrAppend(TargetsOf(d, screen_id), name, entry)
        d2 == WithTargets(d, screen_id, targets)
    IN  /\ loaded' = TRUE
        /\ data' = d2
        /\ file' = Dumps(d2)
        /\ last' = Call("upsert", screen_id, name, args, None)
        /\ UNCHANGED <<clock, align, resolve, detect, other, matcher, llm, disk>>

\* lines 35-54 with the outcome of the write in save().  load() at line 36 may
\* raise, and then nothing is changed; a self._data that is no mapping has no .get
\* and line 43 raises AttributeError before anything but the load is done; an
\* OSError of save() leaves the record in memory
upsert_target(screen_id, name, args, write) ==
    LET d == DataAfterLoad
        entry == Entry(name, args, clock)
        targets == ReplaceOrAppend(TargetsOf(d, screen_id), name, entry)
        d2 == WithTargets(d, screen_id, targets)
    IN  /\ write \in WriteOutcomesOn(file)
        /\ IF LoadRaises
           THEN /\ UNCHANGED <<data, loaded, file>>
                /\ last' = Raise("upsert", screen_id, name, args, "OSError(load)")
           ELSE IF ~IsMapping(d)
           THEN /\ data' = d
                /\ loaded' = TRUE
                /\ file' = file
                /\ last' = Raise("upsert", screen_id, name, args, "AttributeError")
           ELSE /\ data' = d2
                /\ loaded' = TRUE
                /\ file' = FileAfterWrite(d2, write)
                /\ last' = IF write = "written"
                           THEN Call("upsert", screen_id, name, args, None)
                           ELSE Raise("upsert", screen_id, name, args, "OSError(save)")
        /\ UNCHANGED <<clock, align, resolve, detect, other, matcher, llm, disk>>

UpsertTarget(screen_id, name, args) ==
    \E write \in WriteOutcomes : upsert_target(screen_id, name, args, write)

FindTarget(screen_id, name) ==
    /\ IF LoadRaises
       THEN /\ UNCHANGED <<data, loaded>>
            /\ last' = Raise("find", screen_id, name, NoArgs, "OSError(load)")
       ELSE /\ data' = DataAfterLoad
            /\ loaded' = TRUE
            /\ last' = IF IsMapping(DataAfterLoad)
                       THEN Call("find", screen_id, name, NoArgs,
                                 find_target(DataAfterLoad, screen_id, name))
                       ELSE Raise("find", screen_id, name, NoArgs, "AttributeError")
    /\ UNCHANGED <<file, clock, align, resolve, detect, other, matcher, llm, disk>>

\* time passes between calls
Tick ==
    /\ clock < MaxClock
    /\ clock' = clock + 1
    /\ UNCHANGED <<file, data, loaded, last, align, resolve, detect, other, matcher, llm, disk>>

Next ==
    \/ Load
    \/ Save
    \/ \E s \in Screens, n \in Names, a \in UpsertArgs : UpsertTarget(s, n, a)
    \/ \E s \in Screens, n \in Names : FindTarget(s, n)
    \/ Tick

Spec == Init /\ [][Next]_vars

\* C10: on a store started from an absent or empty backing file, after any prior
\* upserts, upsert_target(s, n, cx, cy) followed by find_target(s, n) returns a
\* record with name n, center_canvas [cx, cy] and the radius passed (16.0 when
\* omitted).
C10_RoundTrip ==
    [][(/\ last.call = "upsert"
        /\ last'.call = "find"
        /\ last'.screen = last.screen
        /\ last'.name = last.name) =>
            /\ last'.found
            /\ last'.rec.name = last.name
            /\ last'.rec.center_canvas = <<last.args.cx, last.args.cy>>
            /\ last'.rec.radius = IF last.args.has_radius THEN last.args.radius ELSE 16]_vars

\* find_target right after the second upsert_target of a target, made at a later
\* time with another center and an explicit radius, on a screen that holds a
\* target upserted in between
C10_Witness ==
    /\ last.call = "find"
    /\ last.found
    /\ last.rec = [name |-> "start", center_canvas |-> <<30, 40>>, radius |-> 8,
                   last_seen |-> 1]
    /\ Len(TargetsOf(data, last.screen)) = 2
    /\ TargetsOf(data, last.screen)[1] = last.rec
    /\ TargetsOf(data, last.screen)[2].last_seen = 0
    /\ file = Dumps(data)

NamesIn(targets) == {targets[i].name : i \in DOMAIN targets}

\* C11: on a store started from an absent or empty backing file each screen's
\* target list holds at most one record per name, and an upsert_target for a
\* (screen_id, name) already present updates that record and leaves the length of
\* the list unchanged.
C11_Uniqueness ==
    /\ [](\A s \in Keys(data) : \A i, j \in DOMAIN TargetsOf(data, s) :
              TargetsOf(data, s)[i].name = TargetsOf(data, s)[j].name => i = j)
    /\ [][(/\ last'.call = "upsert"
           /\ last'.name \in NamesIn(TargetsOf(DataAfterLoad, last'.screen))) =>
              LET old == TargetsOf(DataAfterLoad, last'.screen)
                  new == TargetsOf(data', last'.screen)
              IN  /\ Len(new) = Len(old)
                  /\ \E i \in DOMAIN new :
                        /\ new[i].name = last'.name
                        /\ new[i].center_canvas = <<last'.args.cx, last'.args.cy>>]_vars

\* "start" was upserted on a screen at (10, 20), then "supply", then "start" again
\* with another center and a radius: still two records
C11_Witness ==
    /\ last.call = "upsert"
    /\ last.name = "start"
    /\ last.args = [cx |-> 30, cy |-> 40, has_radius |-> TRUE, radius |-> 8]
    /\ Len(TargetsOf(data, last.screen)) = 2
    /\ TargetsOf(data, last.screen)[1] =
          [name |-> "start", center_canvas |-> <<30, 40>>, radius |-> 8, last_seen |-> 1]
    /\ TargetsOf(data, last.screen)[2].name = "supply"
    /\ TargetsOf(data, last.screen)[2].last_seen = 0

\* C17: upsert_target for a name that is present keeps that record at its index and
\* every other record as it is at its index; for a new name it places the record at
\* the end.  So the order of a screen's records is the order in which their names
\* were first upserted.
C17_OrderPreserving ==
    [][last'.call = "upsert" =>
          LET old == TargetsOf(DataAfterLoad, last'.screen)
              new == TargetsOf(data', last'.screen)
          IN  IF last'.name \in NamesIn(old)
              THEN /\ Len(new) = Len(old)
                   /\ \A i \in DOMAIN old :
                         /\ new[i].name = old[i].name
                         /\ old[i].name # last'.name => new[i] = old[i]
              ELSE /\ Len(new) = Len(old) + 1
                   /\ SubSeq(new, 1, Len(old)) = old
                   /\ new[Len(new)].name = last'.name]_vars

\* the record upserted first was upserted again later and is still first
C17_Witness ==
    /\ last.call = "upsert"
    /\ last.screen = "sortie"
    /\ last.name = "supply"
    /\ Len(TargetsOf(data, "sortie")) = 2
    /\ TargetsOf(data, "sortie")[1].name = "supply"
    /\ TargetsOf(data, "sortie")[1].last_seen = 1
    /\ TargetsOf(data, "sortie")[2].name = "start"
    /\ TargetsOf(data, "sortie")[2].last_seen = 0

\* C19: once upsert_target(s, n, ...) has put a record into memory, find_target(s, n)
\* finds a record after every further upsert_target, find_target, load, save and
\* passing of time; no call removes a screen or a record.
C19_NeverExpires ==
    [][loaded =>
          /\ loaded'
          /\ Keys(data) \subseteq Keys(data')
          /\ data' = data \/ \A s \in Screens :
                /\ Len(TargetsOf(data', s)) >= Len(TargetsOf(data, s))
                /\ \A n \in Names :
                      find_target(data, s, n).found => find_target(data', s, n).found]_vars

\* find_target has found a record written at time 0, at time 1, after targets were
\* upserted on both screens and the store was saved and loaded again
C19_Witness ==
    /\ last.call = "find"
    /\ last.found
    /\ last.rec.last_seen = 0
    /\ clock = 1
    /\ Keys(data) = Screens
    /\ \E s \in Screens : \E i \in DOMAIN TargetsOf(data, s) :
          TargetsOf(data, s)[i].last_seen = 1

(***************************************************************************)
(* The State Store on a disk it does not own alone: the backing path may   *)
(* hold anything when an instance is created, a write of save() may fail,  *)
(* another writer may replace the file, and a new instance may be created  *)
(* on the same path.                                                       *)
(***************************************************************************)
Rec(name, cx, cy, radius, last_seen) ==
    [name |-> name, center_canvas |-> <<cx, cy>>, radius |-> radius, last_seen |-> last_seen]
\* a record written without last_seen
RecNoLastSeen(name, cx, cy, radius) ==
    [name |-> name, center_canvas |-> <<cx, cy>>, radius |-> radius]

\* a record with a key the store does not write
RecWithNote(name, cx, cy, radius, last_seen, note) ==
    [name |-> name, center_canvas |-> <<cx, cy>>, radius |-> radius,
     last_seen |-> last_seen, note |-> note]

JsonFile(members) == [k |-> "json", doc |-> members]

\* one screen whose list holds "start" twice, the later record the older one, and
\* "supply" twice, once without last_seen
FileDuplicates ==
    JsonFile(<<Member("port", [targets |-> <<Rec("start", 1, 1, 16, 1),
                                              RecNoLastSeen("supply", 2, 2, 16),
                                              Rec("start", 3, 3, 16, 0),
                                              Rec("supply", 4, 4, 16, 1)>>])>>)

\* a screen entry without "targets", and a screen with one record
FileNoTargets ==
    JsonFile(<<Member("port", [note |-> "menu"]),
               Member("sortie", [targets |-> <<Rec("supply", 5, 5, 16, 0)>>])>>)

\* the text of an object that names a key twice; the record of the second member
\* has a key "note"
FileKeyTwice ==
    JsonFile(<<Member("port", [targets |-> <<Rec("start", 6, 6, 16, 0)>>]),
               Member("port", [targets |-> <<RecWithNote("supply", 7, 7, 16, 1, "x")>>])>>)

DiskFiles == {FileAbsent, FileEmpty, FileUnreadable, FileDirectory, FileInaccessible,
              FileList, FileDuplicates, FileNoTargets, FileKeyTwice}

\* what is upserted on this disk
DiskNames == {"supply"}
DiskArgs == { [cx |-> 30, cy |-> 40, has_radius |-> TRUE, radius |-> 8] }

\* StateStore(path) on the path of the backing file: lines 14-17 read nothing
NewInstance ==
    /\ data' = EmptyMapping
    /\ loaded' = FALSE
    /\ last' = Call("new", "", "", NoArgs, None)
    /\ UNCHANGED <<file, clock, align, resolve, detect, other, matcher, llm, disk>>

\* another writer replaces the backing file
DiskChange ==
    /\ file' \in DiskFiles
    /\ UNCHANGED <<data, loaded, clock, last, align, resolve, detect, other, matcher, llm, disk>>

InitDisk ==
    /\ file \in DiskFiles
    /\ data = EmptyMapping
    /\ loaded = FALSE
    /\ clock = 0
    /\ last = Call("new", "", "", NoArgs, None)
    /\ align = Idle /\ resolve = Idle /\ detect = Idle
    /\ other = Idle /\ matcher = Idle /\ llm = Idle
    /\ disk = "faulty"

NextDisk ==
    \/ Load
    \/ Save
    \/ \E s \in Screens, n \in DiskNames, a \in DiskArgs : UpsertTarget(s, n, a)
    \/ \E s \in Screens, n \in Names : FindTarget(s, n)
    \/ Tick
    \/ NewInstance
    \/ DiskChange

SpecDisk == InitDisk /\ [][NextDisk]_vars

NextSessions == Next \/ NewInstance

SpecSessions == Init /\ [][NextSessions]_vars

C14_LookupsNeverRaise ==
    last.call = "find" => last.raised = ""

\* C15: the load() that reads the backing file returns without raising and leaves
\* the file as it is; when the file is absent, cannot be read or is not JSON, the
\* mapping in memory is empty afterwards.
C15_LoadDegrades ==
    [][(~loaded /\ last'.call = "load") =>
          /\ last'.raised = ""
          /\ file' = file
          /\ file.k \in {"absent", "unreadable", "not_json"} => data' = EmptyMapping]_vars

\* C16: an instance that has not loaded holds the empty mapping whatever the file
\* holds; the first load() that returns, explicit or through find_target, sets the
\* mapping to what the file holds; every later load(), explicit or through find_target, leaves
\* the mapping as it is, and a later upsert_target leaves every other screen as it
\* is in memory, whatever the file holds by then.
C16_LazyIdempotentLoad ==
    /\ [](~loaded => data = EmptyMapping)
    /\ [][/\ (/\ ~loaded /\ last'.call \in {"load", "find"}
              /\ last'.raised # "OSError(load)") => data' = ReadFile(file)
          /\ (loaded /\ last'.call \in {"load", "find"}) => data' = data
          /\ (loaded /\ last'.call = "upsert") =>
                \A s \in Keys(data) \ {last'.screen} :
                    s \in Keys(data') /\ Get(data', s) = Get(data, s)]_vars

\* load() was called on a loaded store that holds a record upserted on it, while
\* the file on disk holds other records: the file was not read again
C16_Witness ==
    /\ last.call = "load"
    /\ ~last.read_file
    /\ loaded
    /\ file = FileDuplicates
    /\ Keys(data) = {"sortie"}
    /\ Len(TargetsOf(data, "sortie")) = 1
    /\ TargetsOf(data, "sortie")[1].center_canvas = <<30, 40>>

\* C18: find_target(screen_id, name) finds a record exactly when the screen's list
\* holds a record of that name, and then returns a record of that list and that
\* name whose last_seen (0 when the record has none) no other record of that name
\* in the list exceeds.
C18_GreatestLastSeen ==
    (last.call = "find" /\ last.raised = "") =>
        LET ts == TargetsOf(data, last.screen)
            same == {i \in DOMAIN ts : ts[i].name = last.name}
        IN  /\ last.found <=> same # {}
            /\ last.found =>
                  \E i \in same :
                      /\ ts[i] = last.rec
                      /\ \A j \in same : LastSeenKey(ts[j]) <= LastSeenKey(ts[i])

\* the list holds "supply" twice, first without last_seen and then with last_seen 1,
\* and find_target returned the second
C18_Witness ==
    /\ last.call = "find"
    /\ last.found
    /\ last.screen = "port"
    /\ Len(TargetsOf(data, "port")) = 4
    /\ TargetsOf(data, "port")[2] = RecNoLastSeen("supply", 2, 2, 16)
    /\ TargetsOf(data, "port")[4] = Rec("supply", 4, 4, 16, 1)
    /\ last.rec = Rec("supply", 4, 4, 16, 1)

\* C20: upsert_target never lets the failure of the write reach its caller.
C20_WriteFailureAbsorbed ==
    last.call = "upsert" => last.raised # "OSError(save)"

\* C23: the point canvas_point_to_viewport returns has x >= 0 and y >= 0, for every
\* canvas point, every device pixel ratio and every bounding box of non-negative
\* width and height.
C23_NeverNegative ==
    align.viewport # Pending =>
        /\ RLe(RInt(0), align.viewport[1])
        /\ RLe(RInt(0), align.viewport[2])

\* C25: a point at fraction f of the screenshot width (height) is mapped to
\* bbox.x + f * bbox.width (bbox.y + f * bbox.height), whatever the size of the
\* screenshot divided by the ratio is.
C25_ScalesToBoundingBox ==
    (/\ align.viewport # Pending
     /\ RLe(RInt(0), align.in.x) /\ RLe(align.in.x, RInt(align.in.img[1]))
     /\ RLe(RInt(0), align.in.y) /\ RLe(align.in.y, RInt(align.in.img[2]))) =>
        /\ align.viewport[1] =
              RAdd(align.in.origin[1],
                   RMul(RDiv(align.in.x, RInt(align.in.img[1])), align.in.w))
        /\ align.viewport[2] =
              RAdd(align.in.origin[2],
                   RMul(RDiv(align.in.y, RInt(align.in.img[2])), align.in.h))

\* C26: upsert_target(s, n, ...) on a mapping creates no screen but s, leaves every
\* other screen entry as it is, and leaves every record of s that has another name
\* as it is at its index; this is so whether or not the write succeeds.
C26_UpsertFrame ==
    [][(last'.call = "upsert" /\ last'.raised \in {"", "OSError(save)"}) =>
          LET d == DataAfterLoad
              old == TargetsOf(d, last'.screen)
              new == TargetsOf(data', last'.screen)
          IN  /\ Keys(data') = Keys(d) \cup {last'.screen}
              /\ \A s \in Keys(d) \ {last'.screen} : Get(data', s) = Get(d, s)
              /\ Len(new) >= Len(old)
              /\ \A i \in DOMAIN old : old[i].name # last'.name => new[i] = old[i]]_vars

\* "supply" was upserted at time 1 on a screen loaded from a file with four records:
\* the second record is the new one, the three others are as the file had them, and
\* no other screen exists
C26_Witness ==
    /\ last.call = "upsert"
    /\ last.screen = "port"
    /\ last.name = "supply"
    /\ Keys(data) = {"port"}
    /\ Len(TargetsOf(data, "port")) = 4
    /\ TargetsOf(data, "port")[1] = Rec("start", 1, 1, 16, 1)
    /\ TargetsOf(data, "port")[2] =
          [name |-> "supply", center_canvas |-> <<30, 40>>, radius |-> 8, last_seen |-> 1]
    /\ TargetsOf(data, "port")[3] = Rec("start", 3, 3, 16, 0)
    /\ TargetsOf(data, "port")[4] = Rec("supply", 4, 4, 16, 1)

\* C27: find_target(s, n) right after an upsert_target(s, n, cx, cy) that returned
\* returns the record with center_canvas [cx, cy], also when the list loaded from
\* the file holds several records named n.
C27_ReadYourWriteWithDuplicates ==
    [][(/\ last.call = "upsert"
        /\ last.raised = ""
        /\ last'.call = "find"
        /\ last'.raised = ""
        /\ last'.screen = last.screen
        /\ last'.name = last.name) =>
            /\ last'.found
            /\ last'.rec.center_canvas = <<last.args.cx, last.args.cy>>]_vars

(***************************************************************************)
(* Two State Store instances on one backing path.  The variables data and  *)
(* loaded are those of the instance that is running; other holds those of  *)
(* the instance that is not, and Switch exchanges them.                     *)
(***************************************************************************)
TwoNames == {"start"}
TwoArgs == { [cx |-> 30, cy |-> 40, has_radius |-> TRUE, radius |-> 8] }

\* control passes to the other instance
Switch ==
    /\ data' = other.data
    /\ loaded' = other.loaded
    /\ other' = [data |-> data, loaded |-> loaded]
    /\ UNCHANGED <<file, clock, last, align, resolve, detect, matcher, llm, disk>>

InitTwo ==
    /\ file \in {FileAbsent, FileEmpty}
    /\ data = EmptyMapping
    /\ loaded = FALSE
    /\ other = [data |-> EmptyMapping, loaded |-> FALSE]
    /\ clock = 0
    /\ last = Call("new", "", "", NoArgs, None)
    /\ align = Idle /\ resolve = Idle /\ detect = Idle
    /\ matcher = Idle /\ llm = Idle
    /\ disk = "sound"

NextTwo ==
    \/ Load
    \/ Save
    \/ \E s \in Screens, n \in TwoNames, a \in TwoArgs : UpsertTarget(s, n, a)
    \/ \E s \in Screens, n \in TwoNames : FindTarget(s, n)
    \/ Tick
    \/ NewInstance
    \/ Switch

SpecTwo == InitTwo /\ [][NextTwo]_vars

\* C24: when an instance's upsert_target returns, the file holds exactly that
\* instance's mapping: for every other screen and name, what the file holds is what
\* the writer had in memory before the call, whatever the file held (no merge); and
\* the first find_target of an instance created afterwards returns what the file
\* holds, so a record only the other instance upserted is NotFound.
C24_LastWriterWins ==
    /\ [][(/\ last'.call = "upsert" /\ last'.raised = ""
           /\ other' = other /\ clock' = clock) =>
              /\ file' = Dumps(data')
              /\ \A s \in Screens, n \in Names :
                    (s # last'.screen \/ n # last'.name) =>
                        find_target(ReadFile(file'), s, n) =
                            find_target(DataAfterLoad, s, n)]_vars
    /\ [][(~loaded /\ last'.call = "find" /\ other' = other /\ clock' = clock) =>
              [found |-> last'.found, rec |-> last'.rec] =
                  find_target(ReadFile(file), last'.screen, last'.name)]_vars

\* an instance created after both writers finds no "start" on "port": the instance
\* that upserted it still holds it in memory, and the file holds only the record
\* the other writer upserted on "sortie"
C24_Witness ==
    /\ last.call = "find"
    /\ last.read_file
    /\ last.screen = "port"
    /\ ~last.found
    /\ other.loaded
    /\ find_target(other.data, "port", "start").found
    /\ ~find_target(other.data, "sortie", "start").found
    /\ Keys(data) = {"sortie"}
    /\ find_target(data, "sortie", "start").found
    /\ file = Dumps(data)

(***************************************************************************)
(* Template Matcher (image_recognition.py, find_button_coordinates).       *)
(* Images are given by their sizes; what cv2.matchTemplate and             *)
(* cv2.minMaxLoc find, the best score and its place, is an input.  Scores  *)
(* are in hundredths.                                                      *)
(***************************************************************************)
MaxTpl == 3       \* template width and height range over 1 .. MaxTpl
Threshold == 80   \* threshold = 0.8

\* max_val: below, at and above the threshold; a blank screenshot scores 0; NaN
Score(v) == [nan |-> FALSE, v |-> v]
NaN == [nan |-> TRUE, v |-> 0]
Scores == {Score(v) : v \in {-100, 0, 79, 80, 81, 100}}

MatchNone == [found |-> FALSE, x |-> 0, y |-> 0]
MatchPoint(x, y) == [found |-> TRUE, x |-> x, y |-> y]
MatchPending == [pending |-> TRUE]

\* the template file: absent, one that cv2.imread cannot decode, or an image
TemplateMissing == [k |-> "missing", w |-> 0, h |-> 0]
TemplateUndecodable == [k |-> "undecodable", w |-> 0, h |-> 0]
TemplateImage(w, h) == [k |-> "image", w |-> w, h |-> h]

\* the screenshot argument: a BGR array, or a value cv2.cvtColor raises on
ScreenshotInvalid == [k |-> "invalid", w |-> 0, h |-> 0]
ScreenshotImage(w, h) == [k |-> "image", w |-> w, h |-> h]

\* the template is no larger than the screenshot in either dimension
TemplateFits(screenshot, template) ==
    template.w <= screenshot.w /\ template.h <= screenshot.h

\* cv2.matchTemplate exchanges image and template when the image is smaller than
\* the template in a dimension, and requires that it then is no larger in either
\* dimension: it raises when the screenshot is smaller than the template in one
\* dimension and larger in the other
MatchTemplateRaises(screenshot, template) ==
    /\ ~TemplateFits(screenshot, template)
    /\ ~(screenshot.w <= template.w /\ screenshot.h <= template.h)

\* faulty variant: a score equal to the threshold does not count
MeetsThresholdStrict(max_val) == ~max_val.nan /\ max_val.v > Threshold

\* max_val >= threshold; no comparison with NaN is true
MeetsThreshold(max_val) == ~max_val.nan /\ max_val.v >= Threshold

\* faulty variant: the two members of template_gray.shape are taken in the other order
MatchCenterSwapsShape(top_left, template_width, template_height) ==
    MatchPoint(top_left[1] + template_height \div 2, top_left[2] + template_width \div 2)

\* lines 50-54
MatchCenter(top_left, template_width, template_height) ==
    MatchPoint(top_left[1] + template_width \div 2, top_left[2] + template_height \div 2)

\* lines 28-61: every exception inside the try is turned into None at lines 59-61
find_button_coordinates(screenshot, template, max_val, max_loc) ==
    IF template.k = "missing" THEN MatchNone
    ELSE IF template.k = "undecodable" THEN MatchNone
    ELSE IF screenshot.k = "invalid" THEN MatchNone
    ELSE IF MatchTemplateRaises(screenshot, template) THEN MatchNone
    ELSE IF MeetsThreshold(max_val)
         THEN MatchCenter(max_loc, template.w, template.h)
         ELSE MatchNone

\* the places cv2.minMaxLoc can give as max_loc: the result of matchTemplate has
\* (W - w + 1) x (H - h + 1) entries, with W x H the larger and w x h the smaller
\* of screenshot and template; when nothing is matched the place is not read
Places(screenshot, template) ==
    IF screenshot.k # "image" \/ template.k # "image" THEN {<<0, 0>>}
    ELSE IF MatchTemplateRaises(screenshot, template) THEN {<<0, 0>>}
    ELSE IF ~TemplateFits(screenshot, template)
    THEN (0 .. template.w - screenshot.w) \X (0 .. template.h - screenshot.h)
    ELSE (0 .. screenshot.w - template.w) \X (0 .. screenshot.h - template.h)

\* the screenshot and the crop x=275:365, y=170:185 of the repository's test
TestScreenshot == ScreenshotImage(640, 324)
TestTemplate == TemplateImage(90, 15)
TestPlace == <<275, 170>>

SmallScreenshot == ScreenshotImage(3, 2)

MatchInputs ==
    {[screenshot |-> sc, template |-> t, max_val |-> v, max_loc |-> p] :
        sc \in {SmallScreenshot, ScreenshotInvalid},
        t \in {TemplateMissing, TemplateUndecodable}
              \cup {TemplateImage(w, h) : w \in 1 .. MaxTpl, h \in 1 .. MaxTpl},
        v \in Scores \cup {NaN},
        p \in (0 .. 3) \X (0 .. 2)}

InitMatch ==
    /\ \E in \in MatchInputs \cup
                 {[screenshot |-> TestScreenshot, template |-> TestTemplate,
                   max_val |-> v, max_loc |-> TestPlace] : v \in Scores} :
          /\ in.max_loc \in Places(in.screenshot, in.template)
          /\ matcher = [in |-> in, out |-> MatchPending]
    /\ align = Idle /\ resolve = Idle /\ detect = Idle
    /\ file = Idle /\ data = Idle /\ loaded = FALSE /\ clock = 0 /\ last = Idle
    /\ other = Idle /\ llm = Idle
    /\ disk = Idle

FindButtonCoordinates ==
    /\ matcher.out = MatchPending
    /\ matcher' = [matcher EXCEPT !.out =
                      find_button_coordinates(matcher.in.screenshot, matcher.in.template,
                                              matcher.in.max_val, matcher.in.max_loc)]
    /\ UNCHANGED <<align, resolve, detect, file, data, loaded, clock, last, other, llm, disk>>

NextMatch == FindButtonCoordinates

SpecMatch == InitMatch /\ [][NextMatch]_vars

\* C21: find_button_coordinates returns a point exactly when the template file
\* exists and decodes, the conversion and the matching raised nothing (the
\* screenshot is an image, and one of screenshot and template is no larger than
\* the other in both dimensions) and the best score is at least 0.8; in every other
\* case it returns NotFound.  It always returns.
C21_FoundOnlyAboveThreshold ==
    matcher.out # MatchPending =>
        /\ matcher.out.found \in BOOLEAN
        /\ matcher.out.found <=>
              /\ matcher.in.template.k = "image"
              /\ matcher.in.screenshot.k = "image"
              /\ \/ /\ matcher.in.template.w <= matcher.in.screenshot.w
                    /\ matcher.in.template.h <= matcher.in.screenshot.h
                 \/ /\ matcher.in.screenshot.w <= matcher.in.template.w
                    /\ matcher.in.screenshot.h <= matcher.in.template.h
              /\ ~matcher.in.max_val.nan
              /\ matcher.in.max_val.v >= 80
        /\ ~matcher.out.found => matcher.out = MatchNone

\* a best score of exactly 0.8 has been taken as found, for a template taller than
\* the screenshot and as wide, at the second row of the result
C21_Witness ==
    /\ matcher.out # MatchPending
    /\ matcher.in.max_val = Score(80)
    /\ matcher.in.screenshot = SmallScreenshot
    /\ matcher.in.template = TemplateImage(3, 3)
    /\ matcher.in.max_loc = <<0, 1>>
    /\ matcher.out = MatchPoint(1, 2)

\* C22: a point returned for a best match at (x0, y0) of a template of width w and
\* height h is (x0 + w // 2, y0 + h // 2): twice its distance from (x0, y0) is w or
\* w - 1 (h or h - 1), so it is within one pixel of the centre of the region; for
\* the 90 x 15 template found at (275, 170) it is within 10 pixels of (320, 178).
C22_MatchCenter ==
    (matcher.out # MatchPending /\ matcher.out.found) =>
        LET dx == matcher.out.x - matcher.in.max_loc[1]
            dy == matcher.out.y - matcher.in.max_loc[2]
            w == matcher.in.template.w
            h == matcher.in.template.h
        IN  /\ 2 * dx \in {w - 1, w} /\ dx >= 0
            /\ 2 * dy \in {h - 1, h} /\ dy >= 0
            /\ (matcher.in.template = TestTemplate /\ matcher.in.max_loc = TestPlace) =>
                  /\ Abs(matcher.out.x - 320) <= 10
                  /\ Abs(matcher.out.y - 178) <= 10

\* the template of the test has been found where it was cropped from
C22_Witness ==
    /\ matcher.out # MatchPending
    /\ matcher.in.template = TestTemplate
    /\ matcher.in.max_loc = TestPlace
    /\ matcher.out = MatchPoint(320, 177)

(***************************************************************************)
(* Model fallback and retry (browser_automation.py): LLMManager and        *)
(* KanColleBrowserAutomation._execute_with_retry.  Time is in seconds.     *)
(* llm.index is self.current_model_index, llm.cooldowns is                 *)
(* self.model_cooldowns with 0 for a model that has no entry, llm.now is   *)
(* time.time().                                                            *)
(***************************************************************************)
MaxNow == 95           \* time.time() ranges over 1 .. MaxNow
MaxTasks == 1          \* _execute_with_retry is called up to MaxTasks times
NumModels == 3         \* len(config.ai.fallback_models)
RetryCount == 3        \* config.automation.retry_count
SwitchCooldown == 60   \* current_time + 60
ShortDelay == 5        \* asyncio.sleep(5)
DefaultWait == 30      \* asyncio.sleep(30)
DefaultDelay == 60     \* return 60 for an error with "429" and no retry_delay
MaxBackoff == 30       \* min(2 ** attempt, 30)
ElapseStep == 30       \* the time that passes between two calls

ModelIndexes == 0 .. NumModels - 1

\* str(error): whether it holds "429", whether it holds "ResourceExhausted" or
\* "quota", and the seconds of its retry_delay (-1 when it has none)
Err(has429, quota, seconds) == [has429 |-> has429, quota |-> quota, seconds |-> seconds]
Errors == {Err(TRUE, FALSE, -1), Err(TRUE, TRUE, 10), Err(FALSE, TRUE, -1),
           Err(FALSE, TRUE, 90), Err(FALSE, FALSE, -1)}

\* line 111
IsRateLimit(error) == error.has429 \/ error.quota

\* lines 145-163
extract_retry_delay(error) ==
    IF error.seconds >= 0 THEN error.seconds
    ELSE IF error.has429 THEN DefaultDelay
    ELSE 0

\* lines 62-67: the models that are not in cooldown at current_time
Available(cooldowns, current_time) ==
    {i \in ModelIndexes : current_time >= cooldowns[i]}

\* lines 57-78: the first model not in cooldown, else the first of those whose
\* cooldown ends first
find_best_available_model(cooldowns, current_time) ==
    IF Available(cooldowns, current_time) # {}
    THEN CHOOSE i \in Available(cooldowns, current_time) :
             \A j \in Available(cooldowns, current_time) : i <= j
    ELSE CHOOSE i \in ModelIndexes :
             /\ \A j \in ModelIndexes : cooldowns[i] <= cooldowns[j]
             /\ \A j \in ModelIndexes : cooldowns[j] = cooldowns[i] => i <= j

\* lines 80-98: the manager after the call and the value returned
switch_to_next_model(index, cooldowns, current_time) ==
    LET marked == [cooldowns EXCEPT ![index] = current_time + SwitchCooldown]
        next_index == find_best_available_model(marked, current_time)
    IN  [index |-> next_index, cooldowns |-> marked, ret |-> next_index # index]

\* lines 106-143: the manager after the call, the time slept and the value returned
handle_rate_limit_error(index, cooldowns, current_time, error) ==
    LET retry_delay == extract_retry_delay(error)
        suggested == [cooldowns EXCEPT ![index] = current_time + retry_delay]
        sw == switch_to_next_model(index,
                                   IF retry_delay > 0 THEN suggested ELSE cooldowns,
                                   current_time)
    IN  IF ~IsRateLimit(error)
        THEN [index |-> index, cooldowns |-> cooldowns, slept |-> 0, ret |-> FALSE,
              switched |-> FALSE, retry_delay |-> 0]
        ELSE [index |-> sw.index, cooldowns |-> sw.cooldowns, ret |-> TRUE,
              switched |-> sw.ret, retry_delay |-> retry_delay,
              slept |-> IF retry_delay > 0
                        THEN (IF sw.ret THEN 0 ELSE retry_delay)
                        ELSE (IF sw.ret THEN ShortDelay ELSE DefaultWait)]

RECURSIVE Pow2(_)
Pow2(n) == IF n = 0 THEN 1 ELSE 2 * Pow2(n - 1)

\* min(2 ** attempt, 30)
Backoff(attempt) == IF Pow2(attempt) < MaxBackoff THEN Pow2(attempt) ELSE MaxBackoff

\* what the last call of the manager did: the index and the time it started with,
\* and what switch_to_next_model and the call returned
NoOp == [op |-> "none", index |-> 0, at |-> 0, retry_delay |-> 0,
         switched |-> FALSE, ret |-> FALSE]
Op(op, index, at, retry_delay, switched, ret) ==
    [op |-> op, index |-> index, at |-> at, retry_delay |-> retry_delay,
     switched |-> switched, ret |-> ret]

\* llm.pc is where _execute_with_retry stands: "idle" before it is called,
\* "awaiting" at await agent_task (line 193), "sleeping" at an asyncio.sleep of
\* lines 130, 136, 140 or 212 that ends at llm.wake, "done" when it has returned
\* llm.result.  Other coroutines run while it is awaiting or sleeping.
InitLLM ==
    /\ llm = [index |-> 0,
              cooldowns |-> [i \in ModelIndexes |-> 0],
              now |-> 1,
              pc |-> "idle", tasks |-> 0, attempt |-> 0, calls |-> 0, handled |-> 0,
              wake |-> 0,
              result |-> FALSE,
              op |-> NoOp]
    /\ align = Idle /\ resolve = Idle /\ detect = Idle
    /\ file = Idle /\ data = Idle /\ loaded = FALSE /\ clock = 0 /\ last = Idle
    /\ other = Idle /\ matcher = Idle
    /\ disk = Idle

Others == <<align, resolve, detect, file, data, loaded, clock, last, other, disk, matcher>>

\* time passes
Elapse ==
    /\ llm.now + ElapseStep <= MaxNow
    /\ llm' = [llm EXCEPT !.now = @ + ElapseStep]
    /\ UNCHANGED Others

\* get_current_llm(), lines 38-55
GetCurrentLLM ==
    /\ llm' = [llm EXCEPT !.index = find_best_available_model(llm.cooldowns, llm.now),
                          !.op = Op("get", llm.index, llm.now, 0, FALSE, FALSE)]
    /\ UNCHANGED Others

\* reset_to_primary(), lines 100-104
ResetToPrimary ==
    /\ llm' = [llm EXCEPT !.index = 0,
                          !.op = Op("reset", llm.index, llm.now, 0, FALSE, FALSE)]
    /\ UNCHANGED Others

\* switch_to_next_model()
SwitchToNextModel ==
    LET sw == switch_to_next_model(llm.index, llm.cooldowns, llm.now)
    IN  /\ llm' = [llm EXCEPT !.index = sw.index,
                              !.cooldowns = sw.cooldowns,
                              !.op = Op("switch", llm.index, llm.now, 0, sw.ret, sw.ret)]
        /\ UNCHANGED Others

\* what the call handle_rate_limit_error(error) that starts in l is recorded as
HandleOp(l, error) ==
    LET h == handle_rate_limit_error(l.index, l.cooldowns, l.now, error)
    IN  IF IsRateLimit(error)
        THEN Op("handle", l.index, l.now, h.retry_delay, h.switched, h.ret)
        ELSE Op("unhandled", l.index, l.now, 0, FALSE, FALSE)

\* handle_rate_limit_error(error) called by another coroutine: the sleep at its
\* end changes nothing of the manager
HandleRateLimitError(error) ==
    LET h == handle_rate_limit_error(llm.index, llm.cooldowns, llm.now, error)
    IN  /\ llm' = [llm EXCEPT !.index = h.index,
                              !.cooldowns = h.cooldowns,
                              !.op = HandleOp(llm, error)]
        /\ UNCHANGED Others

\* lines 185-193 for the next value of range(max_retries): get_current_llm and the
\* call of the task, up to its await; the loop that has run out returns False
\* (line 217)
NextAttempt(l, attempt) ==
    IF attempt < RetryCount
    THEN [l EXCEPT !.index = find_best_available_model(l.cooldowns, l.now),
                   !.attempt = attempt,
                   !.calls = @ + 1,
                   !.pc = "awaiting",
                   !.op = Op("get", l.index, l.now, 0, FALSE, FALSE)]
    ELSE [l EXCEPT !.pc = "done", !.result = FALSE]

\* _execute_with_retry is called: range(max_retries) starts at attempt 0
StartTask ==
    /\ llm.pc \in {"idle", "done"}
    /\ llm.tasks < MaxTasks
    /\ llm' = NextAttempt([llm EXCEPT !.tasks = @ + 1, !.calls = 0, !.handled = 0,
                                      !.result = FALSE],
                          0)
    /\ UNCHANGED Others

\* lines 193-199: the task returns, reset_to_primary, return
TaskReturns ==
    /\ llm.pc = "awaiting"
    /\ llm' = [llm EXCEPT !.index = 0,
                          !.pc = "done",
                          !.result = TRUE,
                          !.op = Op("reset", llm.index, llm.now, 0, FALSE, FALSE)]
    /\ UNCHANGED Others

\* lines 201-215: the task raises error and handle_rate_limit_error runs up to its
\* sleep, or the backoff sleep starts, or the last attempt returns False.  A
\* handled error that needs no sleep goes on (`continue`) to the next value of
\* range(max_retries) at once, and get_current_llm is then the last call of the
\* manager.
TaskRaises(error) ==
    LET h == handle_rate_limit_error(llm.index, llm.cooldowns, llm.now, error)
        is_last == llm.attempt >= RetryCount - 1
        slept == IF h.ret THEN h.slept
                 ELSE IF is_last THEN 0 ELSE Backoff(llm.attempt)
        handled == [llm EXCEPT !.index = h.index,
                               !.cooldowns = h.cooldowns,
                               !.handled = IF h.ret THEN @ + 1 ELSE @,
                               !.op = HandleOp(llm, error)]
    IN  /\ llm.pc = "awaiting"
        /\ llm.now + slept <= MaxNow
        /\ llm' = IF slept > 0
                  THEN [handled EXCEPT !.pc = "sleeping", !.wake = llm.now + slept]
                  ELSE IF h.ret
                  THEN NextAttempt(handled, llm.attempt + 1)
                  ELSE [handled EXCEPT !.pc = "done", !.result = FALSE]
        /\ UNCHANGED Others

\* the asyncio.sleep ends, not before llm.wake, and the loop goes on to the next
\* value of range(max_retries)
SleepEnds ==
    /\ llm.pc = "sleeping"
    /\ llm' = NextAttempt([llm EXCEPT !.now = IF @ < llm.wake THEN llm.wake ELSE @],
                          llm.attempt + 1)
    /\ UNCHANGED Others

NextLLM ==
    \/ Elapse
    \/ GetCurrentLLM
    \/ ResetToPrimary
    \/ SwitchToNextModel
    \/ \E error \in Errors : HandleRateLimitError(error)
    \/ StartTask
    \/ TaskReturns
    \/ \E error \in Errors : TaskRaises(error)
    \/ SleepEnds

SpecLLM == InitLLM /\ [][NextLLM]_vars

\* C28: a failure that handle_rate_limit_error handles does not use up an attempt:
\* a task gives up only after retry_count failures that were not handled.
C28_HandledErrorKeepsAttempt ==
    (llm # Idle /\ llm.pc = "done" /\ ~llm.result) =>
        llm.calls - llm.handled = RetryCount

\* C29: switch_to_next_model returns True only when it has moved the index to
\* another model that is not in cooldown at that moment; when it returns False the
\* index is the one it started with.
C29_SwitchOnlyToAvailable ==
    (llm # Idle /\ llm.op.op = "switch") =>
        /\ llm.op.ret =>
              /\ llm.index # llm.op.index
              /\ llm.op.at >= llm.cooldowns[llm.index]
        /\ ~llm.op.ret => llm.index = llm.op.index

\* C30: after handle_rate_limit_error has handled an error with a retry delay
\* d > 0, the cooldown of the model that was rate limited ends at the time of
\* handling plus d.
C30_CooldownFollowsDelay ==
    (llm # Idle /\ llm.op.op = "handle" /\ llm.op.retry_delay > 0) =>
        llm.cooldowns[llm.op.index] = llm.op.at + llm.op.retry_delay

=============================================================================
